---------------------------- MODULE Spec2Model ----------------------------
(***************************************************************************)
(* Model of the chainlit front-ends of upsun-mcp-server:                   *)
(*   src/chainlit/app-openia.py  (tool-calling conversation driver)        *)
(*   src/chainlit/app.py         (the variant without tools)               *)
(*                                                                         *)
(* The completion client, the MCP client sessions and the chainlit         *)
(* framework are collaborators outside the repository.  They are modelled  *)
(* by the attributes and calls the code reads from them, with every        *)
(* outcome (a returned value of the shape the code reads, or an exception) *)
(* open to the environment.  A Python dict is a sequence of entries in     *)
(* insertion order.  A tool descriptor is represented by its name; a       *)
(* client session by the tool list its backend advertises.                 *)
(*                                                                         *)
(* Atomic steps are the code between two awaits of a handler.              *)
(***************************************************************************)
EXTENDS Naturals, Sequences, FiniteSets, TLC

(***************************************************************************)
(* Bounds and input sets                                                   *)
(***************************************************************************)
\* cap on the tool round-trips a run makes under Spec (the code has none)
MaxRounds == 1
\* cap on the tool round-trips a run makes under SpecLoop
LoopRounds == 9

Runs      == {"r1", "r2"}
MainRuns  == {"r1"}
Conns     == {"c1", "c2"}
\* tool names a completion may ask for; no backend advertises "create_project"
ToolNames == {"list_projects", "delete_project", "create_project"}
\* tool lists a backend may advertise through list_tools
ToolLists == {<<"list_projects">>, <<"list_projects", "delete_project">>}
\* str(tool_result) of a call that returned: a normal result or an isError result
Results   == {"ok", "isError"}

TextBlock     == [type |-> "text", text |-> "answer"]
ToolUse(i, n) == [type |-> "tool_use", id |-> i, name |-> n]

\* response.content values the completion model may produce
Contents ==
  { <<TextBlock>>,
    <<ToolUse(1, "list_projects")>>,
    <<ToolUse(1, "delete_project")>>,
    <<TextBlock, ToolUse(2, "list_projects")>>,
    <<ToolUse(1, "list_projects"), ToolUse(2, "delete_project")>> }

\* responses of the shape on_message reads: stop_reason and content
Responses ==
  { [stop_reason |-> "tool_use", content |-> c] : c \in Contents }
    \cup { [stop_reason |-> "end_turn", content |-> <<TextBlock>>] }

NoResponse == [stop_reason |-> "none", content |-> <<>>]
NoToolUse  == [type |-> "none"]
EmptyDict  == [x \in {} |-> <<>>]

VARIABLES
  mcp_tools,     \* cl.user_session["mcp_tools"]: dict name -> tools, in insertion order
  mcp_sessions,  \* cl.context.session.mcp_sessions: dict name -> session
  listing,       \* on_mcp_connect handlers suspended at list_tools: name -> session
  registered,    \* history: names whose registration completed with no disconnect since
  regOrder,      \* history: names in the order of their first completed registration
  pc,            \* per run: position of on_message
  messages,      \* per run: local variable messages
  response,      \* per run: local variable response
  tool_use,      \* per run: local variable tool_use
  fault,         \* per run: exception that left on_message, or "none"
  req_tools,     \* per run: tools= argument of the completion call in flight
  in_call,       \* per run: the mcp_session.call_tool in flight
  n_model,       \* history, per run: completion calls issued
  n_tool,        \* history, per run: mcp_session.call_tool calls issued
  outbound       \* history, per run: cl.Message(...).send() calls made

regVars == <<mcp_tools, mcp_sessions, listing, registered, regOrder>>
runVars == <<pc, messages, response, tool_use, fault, req_tools, in_call,
             n_model, n_tool, outbound>>
vars    == <<mcp_tools, mcp_sessions, listing, registered, regOrder,
             pc, messages, response, tool_use, fault, req_tools, in_call,
             n_model, n_tool, outbound>>

(***************************************************************************)
(* Python dict helpers (ordered by first insertion)                        *)
(***************************************************************************)
DictKeys(d) == {d[i].name : i \in 1..Len(d)}

DictGet(d, k) == LET i == CHOOSE j \in 1..Len(d) : d[j].name = k IN d[i].tools

\* d[k] = v where a key that is present moves to the end (not what dict does)
DictSetMoveToEnd(d, k, v) ==
  LET keep(e) == e.name # k
  IN Append(SelectSeq(d, keep), [name |-> k, tools |-> v])

\* d.setdefault(k, v): a present key keeps its old value
DictSetKeepOld(d, k, v) ==
  IF k \in DictKeys(d) THEN d ELSE Append(d, [name |-> k, tools |-> v])

\* d = {k: v}: the entries of the other keys are dropped
DictSetFresh(d, k, v) == <<[name |-> k, tools |-> v]>>

\* d[k] = v: a present key keeps its position, a new key is appended
DictSet(d, k, v) ==
  IF k \in DictKeys(d)
    THEN [i \in 1..Len(d) |-> IF d[i].name = k THEN [name |-> k, tools |-> v] ELSE d[i]]
    ELSE Append(d, [name |-> k, tools |-> v])

RECURSIVE Flatten(_)
\* [tool for connection_tools in mcp_tools.values() for tool in connection_tools]
Flatten(d) == IF d = <<>> THEN <<>> ELSE d[1].tools \o Flatten(Tail(d))

Range(s) == {s[i] : i \in 1..Len(s)}

(***************************************************************************)
(* Transcript messages                                                     *)
(***************************************************************************)
SystemMsg    == [role |-> "system", content |-> <<[type |-> "text", text |-> "system"]>>]
UserMsg(r)   == [role |-> "user", content |-> <<[type |-> "text", text |-> r]>>]
AssistantMsg(content) == [role |-> "assistant", content |-> content]
ToolResultMsg(id, res) ==
  [role |-> "user",
   content |-> <<[type |-> "tool_result", tool_use_id |-> id, content |-> res]>>]

(***************************************************************************)
(* Initial state: a chat session with no MCP connection and no message     *)
(***************************************************************************)
Init ==
  /\ mcp_tools = <<>>
  /\ mcp_sessions = EmptyDict
  /\ listing = EmptyDict
  /\ registered = {}
  /\ regOrder = <<>>
  /\ pc = [r \in Runs |-> "idle"]
  /\ messages = [r \in Runs |-> <<>>]
  /\ response = [r \in Runs |-> NoResponse]
  /\ tool_use = [r \in Runs |-> NoToolUse]
  /\ fault = [r \in Runs |-> "none"]
  /\ req_tools = [r \in Runs |-> <<>>]
  /\ in_call = [r \in Runs |-> <<>>]
  /\ n_model = [r \in Runs |-> 0]
  /\ n_tool = [r \in Runs |-> 0]
  /\ outbound = [r \in Runs |-> 0]

(***************************************************************************)
(* MCP connection lifecycle                                                *)
(***************************************************************************)
DictDel(f, k) == [x \in DOMAIN f \ {k} |-> f[x]]

\* The framework stores the new session under connection.name and calls
\* on_mcp_connect, which runs up to its await of session.list_tools().  The
\* keys "connection" and "session" the handler sets are read nowhere and are
\* left out.  One handler per connection name is in flight at a time.
MCPConnect(c, s) ==
  /\ c \notin DOMAIN listing
  /\ mcp_sessions' = (c :> s) @@ mcp_sessions
  /\ listing' = (c :> s) @@ listing
  /\ UNCHANGED <<mcp_tools, registered, regOrder>>
  /\ UNCHANGED runVars

\* list_tools() returned: the rest of on_mcp_connect, which has no await
ListToolsReturns(c) ==
  /\ c \in DOMAIN listing
  /\ mcp_tools' = DictSet(mcp_tools, c, listing[c])
  /\ listing' = DictDel(listing, c)
  /\ registered' = registered \cup {c}
  /\ regOrder' = IF c \in Range(regOrder) THEN regOrder ELSE Append(regOrder, c)
  /\ UNCHANGED mcp_sessions
  /\ UNCHANGED runVars

\* list_tools() raised: the exception leaves on_mcp_connect
ListToolsRaises(c) ==
  /\ c \in DOMAIN listing
  /\ listing' = DictDel(listing, c)
  /\ UNCHANGED <<mcp_tools, mcp_sessions, registered, regOrder>>
  /\ UNCHANGED runVars

\* on_mcp_disconnect has an empty body; the framework then drops the session
MCPDisconnect(c) ==
  /\ c \in DOMAIN mcp_sessions
  /\ mcp_sessions' = DictDel(mcp_sessions, c)
  /\ registered' = registered \ {c}
  /\ UNCHANGED <<mcp_tools, listing, regOrder>>
  /\ UNCHANGED runVars

(***************************************************************************)
(* Tool routing                                                            *)
(***************************************************************************)
Advertises(tools, tool_name) == \E j \in 1..Len(tools) : tools[j] = tool_name

ToolNotFound == "ValueError"

\* find_mcp_for_tool with all(...) in place of any(...)
find_mcp_for_tool_all(tool_name) ==
  LET hits == {i \in 1..Len(mcp_tools) :
                 \A j \in 1..Len(mcp_tools[i].tools) : mcp_tools[i].tools[j] = tool_name}
  IN IF hits = {}
       THEN ToolNotFound
       ELSE mcp_tools[CHOOSE i \in hits : \A j \in hits : i <= j].name

\* the first connection, in dict order, one of whose tools has the name
find_mcp_for_tool(tool_name) ==
  LET hits == {i \in 1..Len(mcp_tools) : Advertises(mcp_tools[i].tools, tool_name)}
  IN IF hits = {}
       THEN ToolNotFound
       ELSE mcp_tools[CHOOSE i \in hits : \A j \in hits : i <= j].name

\* call_tool up to its await: "issued", or the exception class it raises
call_tool(tool_name) ==
  LET mcp_name == find_mcp_for_tool(tool_name)
  IN IF mcp_name = ToolNotFound THEN "ValueError"
     ELSE IF mcp_name \notin DOMAIN mcp_sessions THEN "TypeError"
     ELSE "issued"

(***************************************************************************)
(* Conversation driver: on_message                                         *)
(***************************************************************************)
\* next(block for block in content if block.type == "tool_use")
first_tool_use(content) ==
  LET hits == {i \in 1..Len(content) : content[i].type = "tool_use"}
  IN IF hits = {}
       THEN NoToolUse
       ELSE content[CHOOSE i \in hits : \A j \in hits : i <= j]

\* call_model_with_tools offering the tools on the first call of a run only
call_model_with_tools_first_only(r, msgs) ==
  /\ messages' = [messages EXCEPT ![r] = msgs]
  /\ req_tools' = [req_tools EXCEPT ![r] =
                     IF n_model[r] = 0 THEN <<Flatten(mcp_tools)>> ELSE << <<>> >>]
  /\ n_model' = [n_model EXCEPT ![r] = @ + 1]
  /\ pc' = [pc EXCEPT ![r] = "await_model"]

\* call_model_with_tools where messages is one list shared by all runs
call_model_with_tools_shared(r, msgs) ==
  /\ messages' = [q \in Runs |-> msgs]
  /\ req_tools' = [req_tools EXCEPT ![r] = <<Flatten(mcp_tools)>>]
  /\ n_model' = [n_model EXCEPT ![r] = @ + 1]
  /\ pc' = [pc EXCEPT ![r] = "await_model"]

\* call_model_with_tools up to its await of the completion call
call_model_with_tools(r, msgs) ==
  /\ messages' = [messages EXCEPT ![r] = msgs]
  /\ req_tools' = [req_tools EXCEPT ![r] = <<Flatten(mcp_tools)>>]
  /\ n_model' = [n_model EXCEPT ![r] = @ + 1]
  /\ pc' = [pc EXCEPT ![r] = "await_model"]

\* a user message arrives: the transcript is seeded and the model is called
OnMessage(r) ==
  /\ pc[r] = "idle"
  /\ call_model_with_tools(r, <<SystemMsg, UserMsg(r)>>)
  /\ UNCHANGED <<response, tool_use, fault, in_call, n_tool, outbound>>
  /\ UNCHANGED regVars

\* ModelReturns where call_tool is started without being awaited and the
\* model is called again at once
ModelReturnsNoAwait(r, resp) ==
  /\ pc[r] = "await_model"
  /\ resp.stop_reason = "tool_use"
  /\ first_tool_use(resp.content) # NoToolUse
  /\ LET tu == first_tool_use(resp.content)
         mcp_name == find_mcp_for_tool(tu.name)
     IN /\ call_tool(tu.name) = "issued"
        /\ response' = [response EXCEPT ![r] = resp]
        /\ tool_use' = [tool_use EXCEPT ![r] = tu]
        /\ in_call' = [in_call EXCEPT ![r] =
                         <<[conn |-> mcp_name, session |-> mcp_sessions[mcp_name],
                            name |-> tu.name]>>]
        /\ n_tool' = [n_tool EXCEPT ![r] = @ + 1]
        /\ call_model_with_tools(r, messages[r])
  /\ UNCHANGED <<fault, outbound>>
  /\ UNCHANGED regVars

\* the completion call returned resp: the loop test, the choice of the
\* tool_use block and call_tool up to its await of mcp_session.call_tool
ModelReturns(r, resp) ==
  /\ pc[r] = "await_model"
  /\ LET loop == resp.stop_reason = "tool_use"
         tu   == IF loop THEN first_tool_use(resp.content) ELSE NoToolUse
         out  == IF ~loop THEN "done"
                 ELSE IF tu = NoToolUse THEN "StopIteration"
                 ELSE call_tool(tu.name)
         mcp_name == find_mcp_for_tool(tu.name)
     IN /\ response' = [response EXCEPT ![r] = resp]
        /\ tool_use' = [tool_use EXCEPT ![r] = IF tu = NoToolUse THEN @ ELSE tu]
        /\ pc' = [pc EXCEPT ![r] = IF out = "done" THEN "done"
                                   ELSE IF out = "issued" THEN "await_tools"
                                   ELSE "faulted"]
        /\ fault' = [fault EXCEPT ![r] = IF out \in {"done", "issued"} THEN @ ELSE out]
        /\ in_call' = [in_call EXCEPT ![r] =
                         IF out = "issued"
                           THEN <<[conn |-> mcp_name, session |-> mcp_sessions[mcp_name],
                                   name |-> tu.name]>>
                           ELSE <<>>]
        /\ n_tool' = [n_tool EXCEPT ![r] = IF out = "issued" THEN @ + 1 ELSE @]
  /\ req_tools' = [req_tools EXCEPT ![r] = <<>>]
  /\ UNCHANGED <<messages, n_model, outbound>>
  /\ UNCHANGED regVars

\* ModelRaises with the failed completion call issued again
ModelRaisesRetry(r) ==
  /\ pc[r] = "await_model"
  /\ fault' = [fault EXCEPT ![r] = "ModelError"]
  /\ n_model' = [n_model EXCEPT ![r] = @ + 1]
  /\ UNCHANGED <<pc, messages, response, tool_use, req_tools, in_call, n_tool, outbound>>
  /\ UNCHANGED regVars

\* the completion call (or reading its response) raised: the exception
\* leaves call_model_with_tools and on_message
ModelRaises(r) ==
  /\ pc[r] = "await_model"
  /\ pc' = [pc EXCEPT ![r] = "faulted"]
  /\ fault' = [fault EXCEPT ![r] = "ModelError"]
  /\ req_tools' = [req_tools EXCEPT ![r] = <<>>]
  /\ UNCHANGED <<messages, response, tool_use, in_call, n_model, n_tool, outbound>>
  /\ UNCHANGED regVars

\* the messages built after a tool call returned res
tool_result_messages(r, res) ==
  << AssistantMsg(response[r].content), ToolResultMsg(tool_use[r].id, res) >>

\* mcp_session.call_tool returned: messages is rebuilt and the model called
ToolReturns(r, res) ==
  /\ pc[r] = "await_tools"
  /\ in_call' = [in_call EXCEPT ![r] = <<>>]
  /\ call_model_with_tools(r, tool_result_messages(r, res))
  /\ UNCHANGED <<response, tool_use, fault, n_tool, outbound>>
  /\ UNCHANGED regVars

\* mcp_session.call_tool raised: the exception leaves call_tool and on_message
ToolRaises(r) ==
  /\ pc[r] = "await_tools"
  /\ pc' = [pc EXCEPT ![r] = "faulted"]
  /\ fault' = [fault EXCEPT ![r] = "ToolExecutionError"]
  /\ in_call' = [in_call EXCEPT ![r] = <<>>]
  /\ UNCHANGED <<messages, response, tool_use, req_tools, n_model, n_tool, outbound>>
  /\ UNCHANGED regVars

\* Cancelled with the CancelledError caught and the await entered again
CancelledSwallowed(r) ==
  /\ pc[r] \in {"await_model", "await_tools"}
  /\ fault[r] = "none"
  /\ fault' = [fault EXCEPT ![r] = "CancelledError"]
  /\ UNCHANGED <<pc, messages, response, tool_use, req_tools, in_call,
                 n_model, n_tool, outbound>>
  /\ UNCHANGED regVars

\* The task of on_message is cancelled while it is suspended at one of its
\* awaits: CancelledError is raised there, nothing in on_message, call_tool
\* or call_model_with_tools catches it, and it leaves on_message.
Cancelled(r) ==
  /\ pc[r] \in {"await_model", "await_tools"}
  /\ fault[r] = "none"
  /\ pc' = [pc EXCEPT ![r] = "faulted"]
  /\ fault' = [fault EXCEPT ![r] = "CancelledError"]
  /\ req_tools' = [req_tools EXCEPT ![r] = <<>>]
  /\ in_call' = [in_call EXCEPT ![r] = <<>>]
  /\ UNCHANGED <<messages, response, tool_use, n_model, n_tool, outbound>>
  /\ UNCHANGED regVars

\* tool round-trips completed by run r
Rounds(r) == IF n_model[r] = 0 THEN 0 ELSE n_model[r] - 1

(***************************************************************************)
(* Specifications                                                          *)
(***************************************************************************)
Next ==
  \/ \E c \in Conns, s \in ToolLists : MCPConnect(c, s)
  \/ \E c \in Conns : ListToolsReturns(c)
  \/ \E c \in Conns : ListToolsRaises(c)
  \/ \E c \in Conns : MCPDisconnect(c)
  \/ \E r \in MainRuns : OnMessage(r)
  \/ \E r \in MainRuns, resp \in Responses : ModelReturns(r, resp)
  \/ \E r \in MainRuns : ModelRaises(r)
  \/ \E r \in MainRuns, res \in Results : Rounds(r) < MaxRounds /\ ToolReturns(r, res)
  \/ \E r \in MainRuns : ToolRaises(r)

Spec == Init /\ [][Next]_vars

\* One connection is registered and stays; one run loops.
InitLoop ==
  /\ mcp_tools = <<[name |-> "c1", tools |-> <<"list_projects">>]>>
  /\ mcp_sessions = ("c1" :> <<"list_projects">>)
  /\ listing = EmptyDict
  /\ registered = {"c1"}
  /\ regOrder = <<"c1">>
  /\ pc = [r \in Runs |-> "idle"]
  /\ messages = [r \in Runs |-> <<>>]
  /\ response = [r \in Runs |-> NoResponse]
  /\ tool_use = [r \in Runs |-> NoToolUse]
  /\ fault = [r \in Runs |-> "none"]
  /\ req_tools = [r \in Runs |-> <<>>]
  /\ in_call = [r \in Runs |-> <<>>]
  /\ n_model = [r \in Runs |-> 0]
  /\ n_tool = [r \in Runs |-> 0]
  /\ outbound = [r \in Runs |-> 0]

NextLoop ==
  \/ \E r \in MainRuns : OnMessage(r)
  \/ \E r \in MainRuns, resp \in Responses : ModelReturns(r, resp)
  \/ \E r \in MainRuns : ModelRaises(r)
  \/ \E r \in MainRuns, res \in Results : Rounds(r) < LoopRounds /\ ToolReturns(r, res)
  \/ \E r \in MainRuns : ToolRaises(r)

SpecLoop == InitLoop /\ [][NextLoop]_vars

\* One connection is registered and stays; two runs are interleaved at their
\* awaits and may be cancelled there.
NextTwo ==
  \/ \E r \in Runs : OnMessage(r)
  \/ \E r \in Runs, resp \in Responses : ModelReturns(r, resp)
  \/ \E r \in Runs : ModelRaises(r)
  \/ \E r \in Runs, res \in Results : Rounds(r) < MaxRounds /\ ToolReturns(r, res)
  \/ \E r \in Runs : ToolRaises(r)
  \/ \E r \in Runs : Cancelled(r)

SpecTwo == InitLoop /\ [][NextTwo]_vars

\* connection names of SpecConnect
ConnsWide == {"c1", "c2", "c3"}

\* Connections attach once each, and their on_mcp_connect handlers are
\* interleaved at the await of list_tools; no message is handled.
NextConnect ==
  \/ \E c \in ConnsWide, s \in ToolLists : c \notin DOMAIN mcp_sessions /\ MCPConnect(c, s)
  \/ \E c \in ConnsWide : ListToolsReturns(c)
  \/ \E c \in ConnsWide : ListToolsRaises(c)

SpecConnect == Init /\ [][NextConnect]_vars

(***************************************************************************)
(* app.py: the variant without tools                                       *)
(***************************************************************************)
AppSystemMsg == [role |-> "system", content |-> <<[type |-> "text", text |-> "system-app"]>>]

\* on_message of app.py where the transcript also carries the user messages
\* of the messages handled before (a kept message history)
AppOnMessageHistory(r) ==
  /\ pc[r] = "idle"
  /\ LET prev == {q \in Runs \ {r} : pc[q] # "idle"}
     IN messages' = [messages EXCEPT ![r] =
                       IF prev = {}
                         THEN <<AppSystemMsg, UserMsg(r)>>
                         ELSE <<AppSystemMsg, UserMsg(CHOOSE q \in prev : TRUE), UserMsg(r)>>]
  /\ req_tools' = [req_tools EXCEPT ![r] = << <<>> >>]
  /\ n_model' = [n_model EXCEPT ![r] = @ + 1]
  /\ pc' = [pc EXCEPT ![r] = "await_model"]
  /\ UNCHANGED <<response, tool_use, fault, in_call, n_tool, outbound>>
  /\ UNCHANGED regVars

\* on_message of app.py up to its await of the completion call, which gets
\* the two literal messages and no tools argument
AppOnMessage(r) ==
  /\ pc[r] = "idle"
  /\ messages' = [messages EXCEPT ![r] = <<AppSystemMsg, UserMsg(r)>>]
  /\ req_tools' = [req_tools EXCEPT ![r] = << <<>> >>]
  /\ n_model' = [n_model EXCEPT ![r] = @ + 1]
  /\ pc' = [pc EXCEPT ![r] = "await_model"]
  /\ UNCHANGED <<response, tool_use, fault, in_call, n_tool, outbound>>
  /\ UNCHANGED regVars

\* the completion call returned: its text is sent as one cl.Message
AppModelReturns(r) ==
  /\ pc[r] = "await_model"
  /\ response' = [response EXCEPT ![r] = [stop_reason |-> "end_turn", content |-> <<TextBlock>>]]
  /\ outbound' = [outbound EXCEPT ![r] = @ + 1]
  /\ req_tools' = [req_tools EXCEPT ![r] = <<>>]
  /\ pc' = [pc EXCEPT ![r] = "done"]
  /\ UNCHANGED <<messages, tool_use, fault, in_call, n_model, n_tool>>
  /\ UNCHANGED regVars

\* the completion call raised: the exception leaves on_message before the send
AppModelRaises(r) ==
  /\ pc[r] = "await_model"
  /\ fault' = [fault EXCEPT ![r] = "ModelError"]
  /\ req_tools' = [req_tools EXCEPT ![r] = <<>>]
  /\ pc' = [pc EXCEPT ![r] = "faulted"]
  /\ UNCHANGED <<messages, response, tool_use, in_call, n_model, n_tool, outbound>>
  /\ UNCHANGED regVars

\* on_mcp_connect of app.py has an empty body; the framework holds the session
AppMCPConnect(c, s) ==
  /\ mcp_sessions' = (c :> s) @@ mcp_sessions
  /\ UNCHANGED <<mcp_tools, listing, registered, regOrder>>
  /\ UNCHANGED runVars

\* on_mcp_disconnect of app.py has an empty body; the framework drops the session
AppMCPDisconnect(c) ==
  /\ c \in DOMAIN mcp_sessions
  /\ mcp_sessions' = DictDel(mcp_sessions, c)
  /\ UNCHANGED <<mcp_tools, listing, registered, regOrder>>
  /\ UNCHANGED runVars

NextApp ==
  \/ \E r \in Runs : AppOnMessage(r)
  \/ \E r \in Runs : AppModelReturns(r)
  \/ \E r \in Runs : AppModelRaises(r)
  \/ \E c \in Conns, s \in ToolLists : AppMCPConnect(c, s)
  \/ \E c \in Conns : AppMCPDisconnect(c)

SpecApp == Init /\ [][NextApp]_vars

(***************************************************************************)
(* Properties                                                              *)
(***************************************************************************)
IsPrefix(s, t) == Len(s) <= Len(t) /\ \A i \in 1..Len(s) : s[i] = t[i]

Owners(tool_name) ==
  {c \in DictKeys(mcp_tools) : Advertises(DictGet(mcp_tools, c), tool_name)}

\* exception classes with which a failed tool invocation leaves call_tool
ToolFailures == {"ValueError", "TypeError", "ToolExecutionError"}

\* C1: a failed tool invocation (tool owned by no connection, owning session
\* absent, backend call raising) never leaves on_message as an exception: no
\* run ends faulted by a tool failure.
C1_ToolFailureNeverRaises ==
  \A r \in Runs : fault[r] \notin ToolFailures

\* C2: the number of tool round-trips of a run never exceeds the budget of 8.
C2_RoundTripsWithinBudget ==
  \A r \in Runs : Rounds(r) <= 8

ToolUseIds(content) ==
  LET isToolUse(b) == b.type = "tool_use"
      uses == SelectSeq(content, isToolUse)
  IN [i \in 1..Len(uses) |-> uses[i].id]

ToolResultIds(msgs) ==
  LET isResult(m) == m.role = "user" /\ m.content[1].type = "tool_result"
      results == SelectSeq(msgs, isResult)
  IN [i \in 1..Len(results) |-> results[i].content[1].tool_use_id]

\* C3: when the model is called after a turn that requested tools, the
\* transcript holds, after the assistant message recording the requests, one
\* tool-result message per request of that turn, correlated by id, in the
\* order the model returned the requests.
C3_OneResultPerRequestInOrder ==
  \A r \in Runs :
    (pc[r] = "await_model" /\ n_model[r] >= 2) =>
      ToolResultIds(messages[r]) = ToolUseIds(response[r].content)

\* C4: the flattened tool list holds exactly the descriptors of the
\* connections registered and not unregistered since, in registry order.
C4_FlattenIsRegisteredConnections ==
  LET isRegistered(e) == e.name \in registered
  IN Flatten(mcp_tools) = Flatten(SelectSeq(mcp_tools, isRegistered))

C6_OwnerLookupFirstRegistered ==
  \A t \in ToolNames :
    Cardinality(Owners(t)) >= 2 =>
      LET first == CHOOSE i \in 1..Len(regOrder) :
                     /\ regOrder[i] \in Owners(t)
                     /\ \A j \in 1..Len(regOrder) : regOrder[j] \in Owners(t) => i <= j
      IN find_mcp_for_tool(t) = regOrder[first]

\* C6 witness: both connections have list_projects, c2 registered first, and
\* the lookup answers c2.
C6_Witness ==
  /\ regOrder = <<"c2", "c1">>
  /\ Owners("list_projects") = {"c1", "c2"}
  /\ find_mcp_for_tool("list_projects") = "c2"

\* C7: a run whose tool's owning connection has no session when the tool is
\* invoked does not fault at session resolution (it recovers as for
\* ToolNotFound).
C7_MissingSessionIsRecovered ==
  \A r \in Runs : ~(pc[r] = "faulted" /\ fault[r] = "TypeError")

\* C8: a run that ended with a final answer has delivered exactly one
\* outbound message.
C8_OneNotificationPerRun ==
  \A r \in Runs : pc[r] = "done" => outbound[r] = 1

\* C9: a ModelError ends the run: the run is over with that failure as its
\* outcome, and from then on it issues no completion call and no tool call.
C9_ModelErrorEndsRun ==
  [][\A r \in Runs :
       /\ fault'[r] = "ModelError" => pc'[r] = "faulted"
       /\ fault[r] = "ModelError" =>
            /\ fault'[r] = "ModelError"
            /\ n_model'[r] = n_model[r]
            /\ n_tool'[r] = n_tool[r]]_vars

\* C9 witness: a completion call made after a tool result raised.
C9_Witness ==
  /\ fault["r1"] = "ModelError"
  /\ pc["r1"] = "faulted"
  /\ n_model["r1"] = 2
  /\ n_tool["r1"] = 1

\* C10: the transcript of a run starts as [system instruction, user message]
\* and is append-only: every step leaves the earlier transcript a prefix.
C10_TranscriptAppendOnly ==
  [][\A r \in Runs :
       /\ (pc[r] = "idle" /\ pc'[r] # "idle") =>
            messages'[r] = <<SystemMsg, UserMsg(r)>>
       /\ pc[r] # "idle" => IsPrefix(messages[r], messages'[r])]_vars

\* C11: when on_mcp_connect completes for a connection that already has an
\* entry, the entry holds exactly the newly listed tools afterwards, and the
\* registry holds the same other connections with the same tools as before.
C11_ReRegisterReplacesOnlyOwnEntry ==
  [][\A c \in Conns :
       (ListToolsReturns(c) /\ c \in DictKeys(mcp_tools)) =>
         /\ DictKeys(mcp_tools') = DictKeys(mcp_tools)
         /\ Len(mcp_tools') = Len(mcp_tools)
         /\ DictGet(mcp_tools', c) = listing[c]
         /\ \A d \in DictKeys(mcp_tools) \ {c} :
              DictGet(mcp_tools', d) = DictGet(mcp_tools, d)]_vars

\* C11 witness: the completion call in flight was offered c1 and c2 with one
\* tool each; since then c1 was registered again with two tools, and c2's
\* entry is as it was.
C11_Witness ==
  /\ req_tools["r1"] = << <<"list_projects", "list_projects">> >>
  /\ mcp_tools = << [name |-> "c1", tools |-> <<"list_projects", "delete_project">>],
                    [name |-> "c2", tools |-> <<"list_projects">>] >>

\* C12: a disconnect event for connection c leaves the registry without an
\* entry for c (and a disconnect of a connection with no entry changes
\* nothing).
C12_DisconnectRemovesEntry ==
  [][\A c \in Conns :
       MCPDisconnect(c) =>
         /\ c \notin DictKeys(mcp_tools')
         /\ c \notin DictKeys(mcp_tools) => mcp_tools' = mcp_tools]_vars

\* C13: under every interleaving of two runs, the transcript a run has sent
\* to the model holds only messages of that run: its own system and user
\* message on the first call, and afterwards the assistant message of its
\* own last response and the result of its own tool_use.
C13_TranscriptsNotShared ==
  \A r \in Runs :
    pc[r] = "await_model" =>
      IF n_model[r] = 1
        THEN messages[r] = <<SystemMsg, UserMsg(r)>>
        ELSE /\ Len(messages[r]) = 2
             /\ messages[r][1] = AssistantMsg(response[r].content)
             /\ \E res \in Results :
                  messages[r][2] = ToolResultMsg(tool_use[r].id, res)

\* C13 witness: both runs are suspended on a completion call, one on its
\* first call and one after a tool result, with different transcripts.
C13_Witness ==
  /\ pc["r1"] = "await_model" /\ n_model["r1"] = 2
  /\ pc["r2"] = "await_model" /\ n_model["r2"] = 1
  /\ messages["r1"] # messages["r2"]

\* C14: once a run was cancelled at a suspension point it is over: it issues
\* no further completion call and no further tool call.
C14_CancelStopsRun ==
  [][\A r \in Runs :
       (fault[r] = "CancelledError" \/ fault'[r] = "CancelledError") =>
         /\ pc'[r] = "faulted"
         /\ fault'[r] = "CancelledError"
         /\ n_model'[r] = n_model[r]
         /\ n_tool'[r] = n_tool[r]
         /\ req_tools'[r] = <<>>
         /\ in_call'[r] = <<>>]_vars

\* C14 witness: a run was cancelled while suspended on its tool call.
C14_Witness ==
  /\ fault["r1"] = "CancelledError"
  /\ pc["r1"] = "faulted"
  /\ n_model["r1"] = 1
  /\ n_tool["r1"] = 1

\* C15: every completion call is offered exactly the flattened registry as
\* it is when the call is made.
C15_OfferedToolsAreCurrentRegistry ==
  [][\A r \in Runs :
       n_model'[r] # n_model[r] =>
         /\ n_model'[r] = n_model[r] + 1
         /\ req_tools'[r] = <<Flatten(mcp_tools')>>]_vars

\* C15 witness: the second completion call of a run is in flight and was
\* offered the tools of two connections.
C15_Witness ==
  /\ pc["r1"] = "await_model"
  /\ n_model["r1"] = 2
  /\ Len(mcp_tools) = 2
  /\ req_tools["r1"] = << <<"list_projects", "list_projects", "delete_project">> >>

\* C16: a run has at most one external call outstanding: a completion call
\* exactly while it waits for the model, a tool call exactly while it waits
\* for the tool, and each tool call is issued after the response to the
\* latest completion call and before the next completion call.
C16_OneOutstandingCall ==
  \A r \in Runs :
    /\ Len(req_tools[r]) + Len(in_call[r]) <= 1
    /\ (req_tools[r] # <<>>) <=> (pc[r] = "await_model")
    /\ (in_call[r] # <<>>) <=> (pc[r] = "await_tools")
    /\ n_tool[r] <= n_model[r]
    /\ n_model[r] <= n_tool[r] + 1

\* C16 witness: the model returned two tool-call requests and the run waits
\* for the one tool call it issued.
C16_Witness ==
  /\ pc["r1"] = "await_tools"
  /\ Len(ToolUseIds(response["r1"].content)) = 2
  /\ Len(in_call["r1"]) = 1
  /\ req_tools["r1"] = <<>>

\* C17: every tool call in flight was issued to a session whose backend
\* advertises the tool name.
C17_CallOnlyOnAdvertisingSession ==
  \A r \in Runs :
    in_call[r] # <<>> => Advertises(in_call[r][1].session, in_call[r][1].name)

\* C18: whatever the interleaving of on_mcp_connect handlers of distinct
\* connections, the registry holds one entry for every connection whose
\* handler has finished registering, with exactly the tools that connection
\* listed, and holds no other entry.
C18_NoLostRegistration ==
  /\ Len(mcp_tools) = Cardinality(DictKeys(mcp_tools))
  /\ DictKeys(mcp_tools) = registered
  /\ \A c \in registered :
       /\ c \in DictKeys(mcp_tools)
       /\ DictGet(mcp_tools, c) = mcp_sessions[c]

\* C18 witness: three handlers have finished, in another order than they
\* were named, and the connections listed different tools.
C18_Witness ==
  /\ regOrder = <<"c3", "c1", "c2">>
  /\ listing = EmptyDict
  /\ registered = {"c1", "c2", "c3"}
  /\ mcp_sessions["c1"] # mcp_sessions["c3"]

\* what C19 says of a message apart from its outbound message: one
\* completion call over exactly [system instruction, that user message]
\* with no tools offered, no tool call, and a registry no event has changed
AppCallShape(r) ==
  /\ messages[r] = <<AppSystemMsg, UserMsg(r)>>
  /\ n_model[r] = 1
  /\ n_tool[r] = 0
  /\ in_call[r] = <<>>
  /\ req_tools[r] \in {<<>>, << <<>> >>}
  /\ mcp_tools = <<>>

=============================================================================
